---- MODULE Spec2Model ----
(***************************************************************************)
(* Model of helper_scripts/bom_pricer.py: the Mouser catalog client, the   *)
(* candidate selector filter_results, the resolver get_part_price and the  *)
(* batch loop of process_bom as driven by main.                            *)
(*                                                                         *)
(* Text that the program inspects character by character (packaging,       *)
(* Value, Reference, Qty, Price strings) is a sequence of one-character    *)
(* strings.  Text that the program only produces (Status, the formatted    *)
(* prices) is a TLA+ string.  Prices are integers counting cents.          *)
(***************************************************************************)
EXTENDS Integers, Sequences, FiniteSets, TLC

(***************************************************************************)
(* Python str helpers                                                      *)
(***************************************************************************)
Whitespace == {" ", "\t"}

Digits == <<"0", "1", "2", "3", "4", "5", "6", "7", "8", "9">>

UpperCase == <<"A", "B", "C", "D", "E", "F", "G", "H", "I", "J", "K", "L", "M",
               "N", "O", "P", "Q", "R", "S", "T", "U", "V", "W", "X", "Y", "Z">>

LowerCase == <<"a", "b", "c", "d", "e", "f", "g", "h", "i", "j", "k", "l", "m",
               "n", "o", "p", "q", "r", "s", "t", "u", "v", "w", "x", "y", "z">>

\* str.lower() on one character
lower_char(c) ==
    IF \E k \in 1..Len(UpperCase) : UpperCase[k] = c
    THEN LowerCase[CHOOSE k \in 1..Len(UpperCase) : UpperCase[k] = c]
    ELSE c

\* str.lower()
lower(s) == [k \in 1..Len(s) |-> lower_char(s[k])]

RECURSIVE lstrip(_)
lstrip(s) == IF s # <<>> /\ Head(s) \in Whitespace THEN lstrip(Tail(s)) ELSE s

RECURSIVE rstrip(_)
rstrip(s) ==
    IF s # <<>> /\ s[Len(s)] \in Whitespace
    THEN rstrip(SubSeq(s, 1, Len(s) - 1))
    ELSE s

\* str.strip()
strip(s) == rstrip(lstrip(s))

\* the Python expression  sub in s
contains(s, sub) ==
    \E k \in 1..(Len(s) - Len(sub) + 1) : SubSeq(s, k, k + Len(sub) - 1) = sub

\* str.startswith(prefix)
startswith(s, prefix) ==
    Len(s) >= Len(prefix) /\ SubSeq(s, 1, Len(prefix)) = prefix

\* position of the first "," of s, 0 if there is none
comma_position(s) ==
    IF \E k \in 1..Len(s) : s[k] = ","
    THEN CHOOSE k \in 1..Len(s) : s[k] = "," /\ \A h \in 1..(k - 1) : s[h] # ","
    ELSE 0

\* str.split(","): the pieces between the commas, empty pieces included
RECURSIVE split_at(_, _)
split_at(s, k) ==
    IF k = 0 THEN <<s>>
    ELSE <<SubSeq(s, 1, k - 1)>>
             \o split_at(SubSeq(s, k + 1, Len(s)),
                         comma_position(SubSeq(s, k + 1, Len(s))))

split_comma(s) == split_at(s, comma_position(s))

IsDigit(c) == \E k \in 1..Len(Digits) : Digits[k] = c

DigitValue(c) == (CHOOSE k \in 1..Len(Digits) : Digits[k] = c) - 1

RECURSIVE DigitsValue(_)
DigitsValue(s) ==
    IF s = <<>> THEN 0
    ELSE 10 * DigitsValue(SubSeq(s, 1, Len(s) - 1)) + DigitValue(s[Len(s)])

AllDigits(s) == s # <<>> /\ \A k \in 1..Len(s) : IsDigit(s[k])

Unsigned(s) == IF s # <<>> /\ Head(s) \in {"-", "+"} THEN Tail(s) ELSE s

Sign(s) == IF s # <<>> /\ Head(s) = "-" THEN 0 - 1 ELSE 1

signed_int(t) ==
    IF AllDigits(Unsigned(t))
    THEN [raised |-> "", val |-> Sign(t) * DigitsValue(Unsigned(t))]
    ELSE [raised |-> "ValueError", val |-> 0]

\* int(s): surrounding whitespace and one sign are accepted, then digits only
int(s) == signed_int(strip(s))

\* position of the first "." of t, 0 if there is none
dot_position(t) ==
    IF \E k \in 1..Len(t) : t[k] = "."
    THEN CHOOSE k \in 1..Len(t) : t[k] = "." /\ \A h \in 1..(k - 1) : t[h] # "."
    ELSE 0

\* two fractional digits as a number of cents
fraction_cents(frac) ==
    IF Len(frac) = 1 THEN 10 * DigitsValue(frac) ELSE DigitsValue(frac)

decimal_cents(sg, whole, frac) ==
    IF AllDigits(whole \o frac) /\ Len(frac) <= 2
    THEN [raised |-> "", inf |-> FALSE,
          cents |-> sg * (100 * DigitsValue(whole) + fraction_cents(frac))]
    ELSE [raised |-> "ValueError", inf |-> FALSE, cents |-> 0]

split_decimal(sg, t, dot) ==
    IF dot = 0 THEN decimal_cents(sg, t, <<>>)
    ELSE decimal_cents(sg, SubSeq(t, 1, dot - 1), SubSeq(t, dot + 1, Len(t)))

signed_decimal(t) == split_decimal(Sign(t), Unsigned(t), dot_position(Unsigned(t)))

\* float(s) for decimal text with at most two fractional digits, in cents;
\* any other text is not a number
float_text(s) == signed_decimal(strip(s))

\* the format  f"${x:.2f}"  of a price given in cents
format_price(c) ==
    LET a == IF c < 0 THEN 0 - c ELSE c
    IN  "$" \o (IF c < 0 THEN "-" ELSE "") \o ToString(a \div 100) \o "."
            \o ToString((a % 100) \div 10) \o ToString(a % 10)


(***************************************************************************)
(* Text constants of the program                                           *)
(***************************************************************************)
CutTape == <<"c", "u", "t", " ", "t", "a", "p", "e">>

Tray == <<"t", "r", "a", "y">>

ConnPrefix == <<"C", "o", "n", "n", "_">>

HeaderPhrase == <<"2", ".", "5", "4", "m", "m", " ", "p", "i", "t", "c", "h",
                  " ", "m", "a", "l", "e", " ", "h", "e", "a", "d", "e", "r">>

NA == "N/A"

PauseEvery == 10

(***************************************************************************)
(* State                                                                   *)
(*   rows            the input table, as csv.DictReader yields it          *)
(*   net             net[k] is what the catalog service answers to the     *)
(*                   request made while row k is processed, if one is made *)
(*   json_error_caught  whether the installed requests library raises a    *)
(*                   RequestException for a body that is not JSON          *)
(*                   (requests >= 2.27) or a plain ValueError (older)      *)
(*   i               the loop counter of process_bom (1-based)             *)
(*   processed_rows  the rows appended so far                              *)
(*   pc              where the program is                                  *)
(*   queries         number of HTTP requests issued so far                 *)
(*   since_pause     requests issued since the last pause                  *)
(*   pauses          for each time.sleep taken, the rows processed by then *)
(*   log             per processed row: what the loop body computed        *)
(*   last            the most recent loop body's computation, also when it *)
(*                   raised                                                *)
(*   output          the written output table                              *)
(*   exit_code       the process exit status, -1 while the process runs    *)
(***************************************************************************)
VARIABLES rows, net, json_error_caught, i, processed_rows, pc, queries,
          since_pause, pauses, log, last, output, exit_code

vars == <<rows, net, json_error_caught, i, processed_rows, pc, queries,
          since_pause, pauses, log, last, output, exit_code>>

(***************************************************************************)
(* MouserAPI                                                               *)
(*                                                                         *)
(* A response is [kind, top, Errors, SearchResults, Parts, items]: kind is *)
(* what requests.get / raise_for_status / response.json() meet, top the    *)
(* JSON type of the decoded document, the rest the document's shape:       *)
(* Errors is "absent", "empty" ([]) or "some"; SearchResults is "absent",  *)
(* "null", "array" (a non-empty array) or "object" (a non-empty object);   *)
(* Parts is "absent", "null" or "list", and items are the hits of the list.*)
(* A hit is [Packaging, PriceBreaks, MouserPartNumber].                    *)
(***************************************************************************)
\* lines 53-66: requests.get, raise_for_status, response.json(), data.get
search_by_part_number(part_number, resp) ==
    IF strip(part_number) = <<>>
    THEN [raised |-> "", queried |-> FALSE, none |-> TRUE]
    ELSE CASE resp.kind \in {"ConnectionError", "HTTPError"} ->
                 [raised |-> "", queried |-> TRUE, none |-> TRUE]
           [] resp.kind = "NotJSON" ->
                 [raised |-> IF json_error_caught THEN "" ELSE "ValueError",
                  queried |-> TRUE, none |-> TRUE]
           [] resp.top # "object" ->
                 [raised |-> "AttributeError", queried |-> TRUE, none |-> TRUE]
           [] resp.Errors = "some" ->
                 [raised |-> "", queried |-> TRUE, none |-> TRUE]
           [] OTHER -> [raised |-> "", queried |-> TRUE, none |-> FALSE]

\* lines 85-102: the same steps for the keyword endpoint
search_by_keyword(keyword, resp) ==
    IF strip(keyword) = <<>>
    THEN [raised |-> "", queried |-> FALSE, none |-> TRUE]
    ELSE CASE resp.kind \in {"ConnectionError", "HTTPError"} ->
                 [raised |-> "", queried |-> TRUE, none |-> TRUE]
           [] resp.kind = "NotJSON" ->
                 [raised |-> IF json_error_caught THEN "" ELSE "ValueError",
                  queried |-> TRUE, none |-> TRUE]
           [] resp.top # "object" ->
                 [raised |-> "AttributeError", queried |-> TRUE, none |-> TRUE]
           [] resp.Errors = "some" ->
                 [raised |-> "", queried |-> TRUE, none |-> TRUE]
           [] OTHER -> [raised |-> "", queried |-> TRUE, none |-> FALSE]

(***************************************************************************)
(* filter_results                                                          *)
(***************************************************************************)
\* float(x) of a JSON number or string
float_of(price) ==
    IF price.t = "num" THEN [raised |-> "", inf |-> FALSE, cents |-> price.cents]
    ELSE float_text(price.s)

\* float(x.get("PriceBreaks", [{}])[0].get("Price", float('inf')))
price_key(hit) ==
    IF hit.PriceBreaks.t = "absent"
    THEN [raised |-> "", inf |-> TRUE, cents |-> 0]
    ELSE IF hit.PriceBreaks.items = <<>>
    THEN [raised |-> "IndexError", inf |-> FALSE, cents |-> 0]
    ELSE IF hit.PriceBreaks.items[1].Price.t = "absent"
    THEN [raised |-> "", inf |-> TRUE, cents |-> 0]
    ELSE float_of(hit.PriceBreaks.items[1].Price)

\* a slip in the comparison of min: a later hit at the same price wins
key_less_or_equal(a, b) == b.inf \/ (~a.inf /\ a.cents <= b.cents)

\* a < b on the floats the keys are
key_less(a, b) == ~a.inf /\ (b.inf \/ a.cents < b.cents)

\* result.get("Packaging", "").lower()
packaging_lower(hit) ==
    CASE hit.Packaging.t = "absent" -> [raised |-> "", s |-> <<>>]
      [] hit.Packaging.t = "null" -> [raised |-> "AttributeError", s |-> <<>>]
      [] OTHER -> [raised |-> "", s |-> lower(hit.Packaging.s)]

\* "cut tape" in packaging or "tray" in packaging
has_preferred_packaging(p) == contains(p, CutTape) \/ contains(p, Tray)

is_preferred(hit) == has_preferred_packaging(packaging_lower(hit).s)

\* the built-in min(filtered, key=...): the first element keeps its place
\* unless a later key is strictly smaller
RECURSIVE min_by_key(_, _, _, _)
min_by_key(results, cands, k, best) ==
    IF k > Len(cands) THEN best
    ELSE min_by_key(results, cands, k + 1,
                    IF key_less(price_key(results[cands[k]]),
                                price_key(results[best]))
                    THEN cands[k] ELSE best)

\* the indices of results, in order, that satisfy the packaging test
RECURSIVE preferred_indices(_, _)
preferred_indices(results, k) ==
    IF k > Len(results) THEN <<>>
    ELSE (IF is_preferred(results[k]) THEN <<k>> ELSE <<>>)
             \o preferred_indices(results, k + 1)

all_indices(results) == [k \in 1..Len(results) |-> k]

\* lines 116-118
candidates(results, filtered) ==
    IF filtered = <<>> THEN all_indices(results) ELSE filtered

\* the exception of the first key that raises, "" if none does
RECURSIVE first_key_error(_, _, _)
first_key_error(results, cands, k) ==
    IF k > Len(cands) THEN ""
    ELSE IF price_key(results[cands[k]]).raised # ""
    THEN price_key(results[cands[k]]).raised
    ELSE first_key_error(results, cands, k + 1)

\* line 121
cheapest(results, filtered, error) ==
    IF error # "" THEN [raised |-> error, idx |-> 0]
    ELSE [raised |-> "", idx |-> min_by_key(results, filtered, 2, filtered[1])]

cheapest_of(results, filtered) ==
    cheapest(results, filtered, first_key_error(results, filtered, 1))

\* filter_results(results): idx is the position in results of the returned
\* hit, 0 for None
filter_results(results) ==
    IF results = <<>> THEN [raised |-> "", idx |-> 0]
    ELSE IF \E k \in 1..Len(results) : packaging_lower(results[k]).raised # ""
    THEN [raised |-> "AttributeError", idx |-> 0]
    ELSE cheapest_of(results, candidates(results, preferred_indices(results, 1)))

(***************************************************************************)
(* get_part_price                                                          *)
(***************************************************************************)
NoPrice == [some |-> FALSE, cents |-> 0]

\* filter_results was not called
NotCalled == [called |-> FALSE, raised |-> "", idx |-> 0]

\* search_by_keyword was not called
NoSearch == [called |-> FALSE, raised |-> "", queried |-> FALSE, none |-> TRUE]

\* the tuple (None, "", "", status), or the exception raised on its way up
unresolved(status, search, sel, raised) ==
    [raised |-> raised, queried |-> search.queried, unit_price |-> NoPrice,
     mouser_pn |-> <<>>, packaging |-> <<>>, status |-> status,
     search |-> search, sel |-> sel]

\* float(price_breaks[0].get("Price", 0))
first_price(hit) ==
    IF hit.PriceBreaks.items[1].Price.t = "absent"
    THEN [raised |-> "", inf |-> FALSE, cents |-> 0]
    ELSE float_of(hit.PriceBreaks.items[1].Price)

searched(result) ==
    [called |-> TRUE, raised |-> result.raised, queried |-> result.queried,
     none |-> result.none]

selected(best) == [called |-> TRUE, raised |-> best.raised, idx |-> best.idx]

\* lines 156-159
price_from_break(search, sel, best_part, unit_price) ==
    IF unit_price.raised # ""
    THEN unresolved("", search, sel, unit_price.raised)
    ELSE [raised |-> "", queried |-> TRUE,
          unit_price |-> [some |-> TRUE, cents |-> unit_price.cents],
          mouser_pn |-> best_part.MouserPartNumber,
          packaging |-> IF best_part.Packaging.t = "str"
                        THEN best_part.Packaging.s ELSE <<>>,
          status |-> "Found by Value keyword",
          search |-> search, sel |-> sel]

\* lines 153-155
price_from_part(search, sel, best_part) ==
    IF best_part.PriceBreaks.t = "absent" \/ best_part.PriceBreaks.items = <<>>
    THEN unresolved("Not found", search, sel, "")
    ELSE price_from_break(search, sel, best_part, first_price(best_part))

\* lines 152-153
price_from_best(resp, search, best) ==
    IF best.raised # "" THEN unresolved("", search, selected(best), best.raised)
    ELSE price_from_part(search, selected(best), resp.items[best.idx])

\* lines 149-151 and 162, given what search_by_keyword returned
price_from_search(resp, result) ==
    IF result.raised # ""
    THEN unresolved("", searched(result), NotCalled, result.raised)
    ELSE IF result.none \/ resp.SearchResults \in {"absent", "null"}
    THEN unresolved("Not found", searched(result), NotCalled, "")
    ELSE IF resp.SearchResults = "array"
    THEN unresolved("", searched(result), NotCalled, "AttributeError")
    ELSE IF resp.Parts # "list" \/ resp.items = <<>>
    THEN unresolved("Not found", searched(result), NotCalled, "")
    ELSE price_from_best(resp, searched(result), filter_results(resp.items))

\* lines 138-141
search_value_of(value) ==
    IF startswith(value, ConnPrefix) THEN HeaderPhrase ELSE value

\* get_part_price without its early return for an empty value
get_part_price_no_guard(part_number, value, resp) ==
    price_from_search(resp, search_by_keyword(search_value_of(value), resp))

\* get_part_price(part_number, value), resp being what the service answers
\* if a request is made
get_part_price(part_number, value, resp) ==
    IF strip(value) = <<>>
    THEN unresolved("No Value to search", NoSearch, NotCalled, "")
    ELSE price_from_search(resp, search_by_keyword(search_value_of(value), resp))

(***************************************************************************)
(* process_bom: the body of the loop over the rows                         *)
(*                                                                         *)
(* A row is [Qty, Reference, Value, MPN], each field [t, s]: t is "absent" *)
(* when the table has no such column, "null" when the row is too short to  *)
(* reach the column (DictReader fills None), "str" otherwise.              *)
(***************************************************************************)
\* the truthiness of a float-or-None
truthy(price) == price.some /\ price.cents # 0

\* the number of pieces that are not empty once stripped
count_nonempty(pieces) ==
    Cardinality({k \in 1..Len(pieces) : strip(pieces[k]) # <<>>})

\* len([r.strip() for r in reference.split(',') if r.strip()])
count_references(reference) == count_nonempty(split_comma(reference))

\* lines 190-195
quantity_of(row) ==
    IF row.Qty.t = "null" THEN [raised |-> "AttributeError", val |-> 0]
    ELSE IF row.Qty.t = "str" /\ strip(row.Qty.s) # <<>> THEN int(row.Qty.s)
    ELSE IF row.Reference.t = "null"
    THEN [raised |-> "AttributeError", val |-> 0]
    ELSE [raised |-> "",
          val |-> IF row.Reference.t = "absent" THEN 0
                  ELSE count_references(row.Reference.s)]

\* row.get(name, '').strip()
get_stripped(field) ==
    CASE field.t = "absent" -> [raised |-> "", s |-> <<>>]
      [] field.t = "null" -> [raised |-> "AttributeError", s |-> <<>>]
      [] OTHER -> [raised |-> "", s |-> strip(field.s)]

\* lines 198-203
mpn_of(row) == IF row.MPN.t # "absent" THEN get_stripped(row.MPN)
               ELSE get_stripped(row.Value)

\* line 211
extended_of(unit_price, quantity) ==
    IF truthy(unit_price)
    THEN [some |-> TRUE, cents |-> unit_price.cents * quantity]
    ELSE NoPrice

\* lines 214-215
format_or_na(price) == IF truthy(price) THEN format_price(price.cents) ELSE NA

\* the loop body left by an exception before get_part_price is called
raised_early(row, error) ==
    [raised |-> error, quantity |-> 0, queried |-> FALSE,
     unit_price |-> NoPrice, search |-> NoSearch, sel |-> NotCalled,
     row |-> row, Unit_Price |-> "", Extended_Price |-> "",
     Mouser_Part_Number |-> <<>>, Packaging |-> <<>>, Status |-> ""]

\* lines 208-218
update_row(row, quantity, got) ==
    [raised |-> got.raised, quantity |-> quantity, queried |-> got.queried,
     unit_price |-> got.unit_price, search |-> got.search, sel |-> got.sel,
     row |-> row,
     Unit_Price |-> format_or_na(got.unit_price),
     Extended_Price |-> format_or_na(extended_of(got.unit_price, quantity)),
     Mouser_Part_Number |-> got.mouser_pn,
     Packaging |-> got.packaging,
     Status |-> got.status]

\* lines 189-218 in order: the first exception wins
loop_steps(row, resp, quantity, mpn, value) ==
    IF quantity.raised # "" THEN raised_early(row, quantity.raised)
    ELSE IF mpn.raised # "" THEN raised_early(row, mpn.raised)
    ELSE IF value.raised # "" THEN raised_early(row, value.raised)
    ELSE update_row(row, quantity.val, get_part_price(mpn.s, value.s, resp))

\* lines 186-220 for one row: what is computed, and the row as appended
loop_body(row, resp) ==
    loop_steps(row, resp, quantity_of(row), mpn_of(row), get_stripped(row.Value))

(***************************************************************************)
(* process_bom and main as a state machine                                 *)
(***************************************************************************)
\* a throttle that pauses one row late
rate_limit_due_late(n) == n % PauseEvery = 1

\* line 223
rate_limit_due(n) == n % PauseEvery = 0

\* what the loop body leaves behind for row n
entry_of(b) ==
    [raised |-> b.raised, quantity |-> b.quantity, queried |-> b.queried,
     unit_price |-> b.unit_price, search |-> b.search, sel |-> b.sel]

\* the row as appended to processed_rows
enriched(b) ==
    [row |-> b.row, Unit_Price |-> b.Unit_Price,
     Extended_Price |-> b.Extended_Price,
     Mouser_Part_Number |-> b.Mouser_Part_Number,
     Packaging |-> b.Packaging, Status |-> b.Status]

NoEntry ==
    [raised |-> "", quantity |-> 0, queried |-> FALSE, unit_price |-> NoPrice,
     search |-> NoSearch, sel |-> NotCalled]

\* the effect of one iteration whose body computed b
Iterate(b) ==
    /\ last' = entry_of(b)
    /\ queries' = queries + (IF b.queried THEN 1 ELSE 0)
    /\ since_pause' = since_pause + (IF b.queried THEN 1 ELSE 0)
    /\ IF b.raised # ""
       THEN /\ pc' = "raised"
            /\ UNCHANGED <<i, processed_rows, log>>
       ELSE /\ processed_rows' = Append(processed_rows, enriched(b))
            /\ log' = Append(log, entry_of(b))
            /\ i' = i + 1
            /\ pc' = IF rate_limit_due(i) THEN "sleep" ELSE "loop"

\* lines 186-224: one iteration of the loop; an exception leaves the loop
ProcessRow ==
    /\ pc = "loop"
    /\ i <= Len(rows)
    /\ Iterate(loop_body(rows[i], net[i]))
    /\ UNCHANGED <<rows, net, json_error_caught, pauses, output, exit_code>>

\* line 224: time.sleep(1)
Sleep ==
    /\ pc = "sleep"
    /\ pauses' = Append(pauses, Len(processed_rows))
    /\ since_pause' = 0
    /\ pc' = "loop"
    /\ UNCHANGED <<rows, net, json_error_caught, i, processed_rows, queries,
                   log, last, output, exit_code>>

\* lines 227-230: the loop is over, the table is written
WriteOutput ==
    /\ pc = "loop"
    /\ i > Len(rows)
    /\ output' = [written |-> TRUE, rows |-> processed_rows]
    /\ pc' = "returned"
    /\ UNCHANGED <<rows, net, json_error_caught, i, processed_rows, queries,
                   since_pause, pauses, log, last, exit_code>>

\* main, line 248 returning normally
MainReturn ==
    /\ pc = "returned"
    /\ exit_code' = 0
    /\ pc' = "exited"
    /\ UNCHANGED <<rows, net, json_error_caught, i, processed_rows, queries,
                   since_pause, pauses, log, last, output>>

\* main, lines 249-251: except Exception, sys.exit(1)
MainExcept ==
    /\ pc = "raised"
    /\ exit_code' = 1
    /\ pc' = "exited"
    /\ UNCHANGED <<rows, net, json_error_caught, i, processed_rows, queries,
                   since_pause, pauses, log, last, output>>

Next == ProcessRow \/ Sleep \/ WriteOutput \/ MainReturn \/ MainExcept

(***************************************************************************)
(* Inputs: tables and catalog responses                                    *)
(***************************************************************************)
MaxHits == 2

MaxRows == 3

MaxLongRows == 31

Str(s) == [t |-> "str", s |-> s]

Absent == [t |-> "absent", s |-> <<>>]

Null == [t |-> "null", s |-> <<>>]

Num(c) == [t |-> "num", cents |-> c, s |-> <<>>]

Txt(s) == [t |-> "str", cents |-> 0, s |-> s]

NoPriceKey == [t |-> "absent", cents |-> 0, s |-> <<>>]

Breaks(prices) ==
    [t |-> "list", items |-> [k \in 1..Len(prices) |-> [Price |-> prices[k]]]]

NoBreaks == [t |-> "absent", items |-> <<>>]

PackagingKinds ==
    {Str(<<"C", "u", "t", " ", "T", "a", "p", "e">>),
     Str(<<"T", "u", "b", "e">>),
     Str(<<"T", "R", "A", "Y">>),
     Absent}

BreakKinds ==
    {NoBreaks, Breaks(<<>>), Breaks(<<NoPriceKey>>), Breaks(<<Num(0)>>),
     Breaks(<<Num(100)>>), Breaks(<<Num(250), Num(100)>>)}

\* a hit as the service describes it, before it has a part number
HitKinds ==
    [Packaging : PackagingKinds, PriceBreaks : BreakKinds]
    \cup {[Packaging |-> Null, PriceBreaks |-> Breaks(<<Num(100)>>)],
          [Packaging |-> Str(<<"R", "e", "e", "l">>),
           PriceBreaks |-> Breaks(<<Txt(<<"1", ".", "5", "0">>)>>)],
          [Packaging |-> Str(<<"t", "r", "a", "y", "s">>),
           PriceBreaks |-> Breaks(<<Txt(<<"$", "1", ".", "0", "0">>)>>)]}

\* the k-th hit of a result list carries the part number "P<k>"
Parts(kinds) ==
    [k \in 1..Len(kinds) |->
        [Packaging |-> kinds[k].Packaging,
         PriceBreaks |-> kinds[k].PriceBreaks,
         MouserPartNumber |-> <<"P", Digits[k + 1]>>]]

Transport(kind) ==
    [kind |-> kind, top |-> "null", Errors |-> "absent",
     SearchResults |-> "absent", Parts |-> "absent", items |-> <<>>]

Document(top, errors, results, parts, items) ==
    [kind |-> "JSON", top |-> top, Errors |-> errors,
     SearchResults |-> results, Parts |-> parts, items |-> items]

Found(kinds) == Document("object", "empty", "object", "list", Parts(kinds))

TubeAt(c) ==
    [Packaging |-> Str(<<"T", "u", "b", "e">>), PriceBreaks |-> Breaks(<<Num(c)>>)]

\* every way a request can end, with a few result lists
RespKinds ==
    {Transport("ConnectionError"), Transport("HTTPError"), Transport("NotJSON"),
     Document("array", "absent", "absent", "absent", <<>>),
     Document("null", "absent", "absent", "absent", <<>>),
     Document("object", "some", "absent", "absent", <<>>),
     Document("object", "absent", "absent", "absent", <<>>),
     Document("object", "empty", "null", "absent", <<>>),
     Document("object", "empty", "array", "absent", <<>>),
     Document("object", "empty", "object", "absent", <<>>),
     Document("object", "empty", "object", "null", <<>>),
     Found(<<>>),
     Found(<<TubeAt(100)>>),
     Found(<<TubeAt(0)>>),
     Found(<<[Packaging |-> Absent, PriceBreaks |-> NoBreaks]>>),
     Found(<<[Packaging |-> Absent, PriceBreaks |-> Breaks(<<>>)]>>),
     Found(<<[Packaging |-> Absent, PriceBreaks |-> Breaks(<<NoPriceKey>>)]>>),
     Found(<<[Packaging |-> Absent,
              PriceBreaks |-> Breaks(<<Txt(<<"$", "1", ".", "0", "0">>)>>)]>>)}

Row(qty, reference, value, mpn) ==
    [Qty |-> qty, Reference |-> reference, Value |-> value, MPN |-> mpn]

TenK == <<"1", "0", "k">>

RowKinds ==
    {Row(Absent, Str(<<"R", "1", ",", ",", " ", "R", "2", " ">>), Str(TenK), Absent),
     Row(Absent, Str(<<"R", "1">>), Str(<<" ", "1", "0", "k", " ">>), Str(<<"X", "7">>)),
     Row(Absent, Str(<<" ", ",">>), Str(TenK), Absent),
     Row(Absent, Absent, Str(TenK), Absent),
     Row(Str(<<" ">>), Str(<<"C", "1", ",", "C", "2", ",", "C", "3">>), Str(TenK), Absent),
     Row(Str(<<"4">>), Str(<<"R", "1">>), Str(TenK), Absent),
     Row(Str(<<"0">>), Absent, Str(TenK), Absent),
     Row(Str(<<"x">>), Str(<<"R", "1">>), Str(TenK), Absent),
     Row(Absent, Str(<<"J", "1">>), Str(ConnPrefix \o <<"0", "1", "x", "0", "2">>), Absent),
     Row(Absent, Str(<<"R", "1", ",", "R", "2">>), Str(<<" ", "\t">>), Str(<<"X", "7">>)),
     Row(Str(<<"5">>), Absent, Str(<<>>), Absent),
     Row(Absent, Str(<<"R", "1">>), Absent, Str(<<"X", "7">>)),
     Row(Absent, Str(<<"R", "1">>), Null, Absent),
     Row(Null, Str(<<"R", "1">>), Str(TenK), Absent)}

\* rows and responses around the row of interest in a short table
FillerRows ==
    {Row(Absent, Str(<<"R", "1">>), Str(TenK), Absent),
     Row(Absent, Str(<<"R", "1">>), Str(<<>>), Absent)}

FillerResp == Found(<<TubeAt(100)>>)

InitRun ==
    /\ i = 1
    /\ processed_rows = <<>>
    /\ pc = "loop"
    /\ queries = 0
    /\ since_pause = 0
    /\ pauses = <<>>
    /\ log = <<>>
    /\ last = NoEntry
    /\ output = [written |-> FALSE, rows |-> <<>>]
    /\ exit_code = 0 - 1

\* one row, every result list of at most MaxHits hits
InitSelect ==
    /\ \E n \in 0..MaxHits : \E kinds \in [1..n -> HitKinds] :
          /\ rows = <<Row(Absent, Str(<<"R", "1">>), Str(TenK), Absent)>>
          /\ net = <<Found(kinds)>>
    /\ json_error_caught = TRUE

\* a short table: any row and any response at one place, fillers around it,
\* under either behaviour of response.json() on a body that is not JSON
InitBatch ==
    /\ \E n \in 0..MaxRows : \E k \in 1..n :
       \E row \in RowKinds, resp \in RespKinds, f \in [1..n -> FillerRows] :
          /\ rows = [j \in 1..n |-> IF j = k THEN row ELSE f[j]]
          /\ net = [j \in 1..n |-> IF j = k THEN resp ELSE FillerResp]
    /\ json_error_caught \in BOOLEAN

\* a long table: two kinds of rows alternating, one response that may differ
InitLong ==
    /\ \E n \in 0..MaxLongRows : \E k \in 0..n :
       \E t \in [0..1 -> FillerRows],
          resp \in {Transport("ConnectionError"),
                    Document("array", "absent", "absent", "absent", <<>>)} :
          /\ rows = [j \in 1..n |-> t[j % 2]]
          /\ net = [j \in 1..n |-> IF j = k THEN resp ELSE FillerResp]
    /\ json_error_caught = TRUE

Init == InitRun /\ (InitSelect \/ InitBatch \/ InitLong)

Spec == Init /\ [][Next]_vars

(***************************************************************************)
(* Vocabulary of the properties                                            *)
(***************************************************************************)
\* each row the loop body has run for, with what it computed: the appended
\* rows, and the row that raised if one did
Attempted ==
    {<<k, log[k]>> : k \in 1..Len(log)}
        \cup (IF last.raised # "" THEN {<<i, last>>} ELSE {})

NoBreakpoints(hit) ==
    hit.PriceBreaks.t = "absent" \/ hit.PriceBreaks.items = <<>>

\* the hit's first breakpoint carries a number, as a JSON number or as text
HasPrice(hit) ==
    /\ ~NoBreakpoints(hit)
    /\ \/ hit.PriceBreaks.items[1].Price.t = "num"
       \/ /\ hit.PriceBreaks.items[1].Price.t = "str"
          /\ float_text(hit.PriceBreaks.items[1].Price.s).raised = ""

PriceOf(hit) ==
    IF hit.PriceBreaks.items[1].Price.t = "num"
    THEN hit.PriceBreaks.items[1].Price.cents
    ELSE float_text(hit.PriceBreaks.items[1].Price.s).cents

CutTapeOrTray(hit) ==
    /\ hit.Packaging.t = "str"
    /\ \/ contains(lower(hit.Packaging.s), CutTape)
       \/ contains(lower(hit.Packaging.s), Tray)

\* the partition the selection is made in
Chosen(items) ==
    IF \E k \in 1..Len(items) : CutTapeOrTray(items[k])
    THEN {k \in 1..Len(items) : CutTapeOrTray(items[k])}
    ELSE 1..Len(items)

EmptyValue(row) ==
    row.Value.t = "absent" \/ (row.Value.t = "str" /\ strip(row.Value.s) = <<>>)

PlainStatuses == {"No Value to search", "Found by Value keyword", "Not found"}

(***************************************************************************)
(* C1 (as claimed): process_bom emits exactly one output row per input row, *)
(* in input order, whatever the table and the catalog responses: a         *)
(* finished run has written a table whose k-th row is the k-th input row.  *)
(***************************************************************************)
C1_OneOutputRowPerInputRow ==
    pc = "exited" =>
        /\ output.written
        /\ Len(output.rows) = Len(rows)
        /\ \A k \in 1..Len(rows) : output.rows[k].row = rows[k]

(***************************************************************************)
(* C2 (as claimed): no failure of a row's resolution aborts the batch: a   *)
(* run in which nothing but catalog resolutions went wrong (no exception   *)
(* arose before a row's query was attempted) ends with every row processed *)
(* and the output table written, whatever the catalog answered.            *)
(***************************************************************************)
C2_ResolutionFailureIsolated ==
    (/\ pc = "exited"
     /\ \A a \in Attempted : a[2].raised # "" => a[2].search.called) =>
        /\ output.written
        /\ exit_code = 0
        /\ Len(output.rows) = Len(rows)

(***************************************************************************)
(* C3 (as claimed): search_by_keyword and search_by_part_number never      *)
(* propagate an exception: on every response the service has given, each   *)
(* returns (None or the decoded result) without raising.                   *)
(***************************************************************************)
C3_SearchNeverRaises ==
    \A a \in Attempted :
        a[2].search.called =>
            /\ a[2].search.raised = ""
            /\ search_by_part_number(TenK, net[a[1]]).raised = ""

(***************************************************************************)
(* C4: filter_results returns None for an empty sequence; for a non-empty  *)
(* sequence whose hits all have a priced first breakpoint it returns a hit *)
(* of the cut-tape/tray partition when that partition is not empty (else   *)
(* of the whole sequence), namely the first hit in input order whose price *)
(* is the minimum over that partition.                                     *)
(***************************************************************************)
C4_SelectsFirstCheapestOfPartition ==
    /\ filter_results(<<>>) = [raised |-> "", idx |-> 0]
    /\ \A a \in Attempted :
          (/\ a[2].sel.called
           /\ \A k \in 1..Len(net[a[1]].items) :
                 /\ HasPrice(net[a[1]].items[k])
                 /\ net[a[1]].items[k].Packaging.t # "null")
          => /\ a[2].sel.raised = ""
             /\ a[2].sel.idx \in Chosen(net[a[1]].items)
             /\ \A k \in Chosen(net[a[1]].items) :
                   /\ PriceOf(net[a[1]].items[a[2].sel.idx])
                          <= PriceOf(net[a[1]].items[k])
                   /\ PriceOf(net[a[1]].items[k])
                          = PriceOf(net[a[1]].items[a[2].sel.idx])
                      => a[2].sel.idx <= k

\* a cheaper tube loses to a dearer cut tape
C4_Witness ==
    /\ Len(log) = 1
    /\ log[1].sel.called
    /\ Len(net[1].items) = 2
    /\ \A k \in 1..2 : HasPrice(net[1].items[k])
    /\ ~CutTapeOrTray(net[1].items[1])
    /\ CutTapeOrTray(net[1].items[2])
    /\ PriceOf(net[1].items[1]) < PriceOf(net[1].items[2])
    /\ log[1].sel.idx = 2
    /\ processed_rows[1].Mouser_Part_Number = <<"P", "2">>

(***************************************************************************)
(* C5 (as claimed): a hit without price breakpoints (the list absent or    *)
(* empty) counts as price +infinity: selection among hits that are priced  *)
(* or without breakpoints completes without error, returns such a hit only *)
(* when no hit of the chosen partition is priced, and the row then gets    *)
(* "Not found" with unresolved price, catalog id and packaging.            *)
(***************************************************************************)
C5_NoBreakpointsRankLast ==
    \A a \in Attempted :
        (/\ a[2].sel.called
         /\ \A k \in 1..Len(net[a[1]].items) :
               /\ HasPrice(net[a[1]].items[k]) \/ NoBreakpoints(net[a[1]].items[k])
               /\ net[a[1]].items[k].Packaging.t # "null")
        => /\ a[2].sel.raised = ""
           /\ a[2].sel.idx \in 1..Len(net[a[1]].items)
           /\ NoBreakpoints(net[a[1]].items[a[2].sel.idx]) =>
                 /\ \A k \in Chosen(net[a[1]].items) :
                       NoBreakpoints(net[a[1]].items[k])
                 /\ a[1] <= Len(processed_rows)
                 /\ processed_rows[a[1]].Status = "Not found"
                 /\ processed_rows[a[1]].Unit_Price = NA
                 /\ processed_rows[a[1]].Mouser_Part_Number = <<>>
                 /\ processed_rows[a[1]].Packaging = <<>>

(***************************************************************************)
(* C6: a row whose Value is empty after trimming issues no catalog query,  *)
(* gets Status "No Value to search" and the unresolved marker in           *)
(* Unit_Price and Extended_Price, whatever its other fields are.           *)
(***************************************************************************)
C6_EmptyValueShortCircuits ==
    \A a \in Attempted :
        EmptyValue(rows[a[1]]) =>
            /\ ~a[2].queried
            /\ ~a[2].search.called
            /\ a[1] <= Len(processed_rows) =>
                  /\ processed_rows[a[1]].Status = "No Value to search"
                  /\ processed_rows[a[1]].Unit_Price = NA
                  /\ processed_rows[a[1]].Extended_Price = NA

\* a whitespace-only Value in a row that has a quantity and a part number,
\* processed after a row that was priced
C6_Witness ==
    /\ Len(processed_rows) >= 2
    /\ processed_rows[1].Status = "Found by Value keyword"
    /\ rows[2].Value.t = "str"
    /\ rows[2].Value.s # <<>>
    /\ EmptyValue(rows[2])
    /\ rows[2].MPN.t = "str"
    /\ log[2].quantity = 2
    /\ processed_rows[2].Status = "No Value to search"
    /\ queries = 1

(***************************************************************************)
(* C7 (as claimed): for a row without a Qty column whose Reference holds N *)
(* non-empty tokens (any N >= 0), whenever the resolver returns a unit     *)
(* price p (any p >= 0) Extended_Price is the formatted N x p; it is the   *)
(* unresolved marker only when the unit price is unresolved.               *)
(***************************************************************************)
C7_ExtendedPriceIsQuantityTimesUnit ==
    \A k \in 1..Len(processed_rows) :
        (rows[k].Qty.t = "absent" /\ rows[k].Reference.t = "str") =>
            /\ log[k].unit_price.some =>
                  processed_rows[k].Extended_Price =
                      format_price(count_references(rows[k].Reference.s)
                                       * log[k].unit_price.cents)
            /\ processed_rows[k].Extended_Price = NA => ~log[k].unit_price.some

(***************************************************************************)
(* C8: a pause is taken after every 10th processed row and before the next *)
(* row is started, whatever those rows did; no pause is taken after any    *)
(* other row; at most 10 catalog queries are issued between two pauses.    *)
(***************************************************************************)
C8_FixedCadenceThrottle ==
    /\ \A k \in 1..Len(pauses) : pauses[k] = 10 * k
    /\ pc = "sleep" =>
          /\ Len(processed_rows) % 10 = 0
          /\ Len(pauses) = (Len(processed_rows) \div 10) - 1
    /\ pc # "sleep" => Len(pauses) = Len(processed_rows) \div 10
    /\ since_pause <= 10

\* 31 rows processed, pauses taken after rows 10, 20 and 30, among rows
\* that were priced, rows that issued no query and a row whose query failed
C8_Witness ==
    /\ Len(processed_rows) = 31
    /\ pauses = <<10, 20, 30>>
    /\ queries > 10
    /\ since_pause = 1
    /\ \E k \in 1..Len(log) : ~log[k].queried
    /\ \E k \in 1..Len(log) : processed_rows[k].Status = "Not found"
    /\ \E k \in 1..Len(log) : processed_rows[k].Status = "Found by Value keyword"

(***************************************************************************)
(* C9 (as claimed): the quantity is the Qty field when present and not     *)
(* empty, else the number of non-empty Reference tokens; when neither      *)
(* source yields a quantity it is zero and the row's Status records that,  *)
(* so that it differs from the Status of a row with a known quantity.      *)
(***************************************************************************)
C9_MissingQuantityIsFlagged ==
    \A k \in 1..Len(processed_rows) :
        /\ (rows[k].Qty.t = "str" /\ strip(rows[k].Qty.s) # <<>>) =>
              log[k].quantity = int(rows[k].Qty.s).val
        /\ (rows[k].Qty.t = "absent" \/ strip(rows[k].Qty.s) = <<>>) =>
              log[k].quantity =
                  IF rows[k].Reference.t = "absent" THEN 0
                  ELSE count_references(rows[k].Reference.s)
        /\ (/\ rows[k].Qty.t = "absent" \/ strip(rows[k].Qty.s) = <<>>
            /\ \/ rows[k].Reference.t = "absent"
               \/ count_references(rows[k].Reference.s) = 0) =>
              /\ log[k].quantity = 0
              /\ processed_rows[k].Status \notin PlainStatuses

(***************************************************************************)
(* C10 (as claimed): in every output row Status is one of the three        *)
(* labels, it is "Found by Value keyword" exactly when Unit_Price is a     *)
(* formatted price, and otherwise both prices are the unresolved marker    *)
(* and Mouser_Part_Number and Packaging are empty.                         *)
(***************************************************************************)
C10_AddedFieldsConsistent ==
    \A k \in 1..Len(processed_rows) :
        /\ processed_rows[k].Status \in PlainStatuses
        /\ processed_rows[k].Status = "Found by Value keyword"
              <=> processed_rows[k].Unit_Price # NA
        /\ processed_rows[k].Status # "Found by Value keyword" =>
              /\ processed_rows[k].Unit_Price = NA
              /\ processed_rows[k].Extended_Price = NA
              /\ processed_rows[k].Mouser_Part_Number = <<>>
              /\ processed_rows[k].Packaging = <<>>

====
